---- MODULE Spec2Model ----
(***************************************************************************)
(* A model of the test-case harness of tal-utils-rs (src/src/tc.rs).       *)
(*                                                                         *)
(* One run of run_tc is a sequential process; pc is its position.  The     *)
(* caller's closures (init_fn, gen_fn, check_fn), the process environment  *)
(* and the file system are the inputs: what each returns is chosen when    *)
(* the code calls it and is recorded in calls / envRead, so that the       *)
(* properties below can speak about the inputs of every case.              *)
(*                                                                         *)
(* Durations and time limits are counted in ticks of 0.2 ms (the code      *)
(* holds seconds as f64): a duration may lie between two milliseconds, and *)
(* none lies halfway, where the last bit of the f64 would decide how       *)
(* {:.3} rounds it.                                                        *)
(*                                                                         *)
(* Every write may fail.  file.lines are the complete lines of result.txt: *)
(* a writeln! that fails adds none and ends the run with the error (`?`).  *)
(* println! and eprintln! panic when stdout or stderr refuses the line;    *)
(* the flush after gen_fn fails when gen_fn left output that cannot be     *)
(* delivered.  The flush of line 133 follows a println! that went through: *)
(* the line-buffered stdout holds nothing then, and the flush has nothing  *)
(* to fail on.                                                             *)
(*                                                                         *)
(* get_multiplier and gen_data are functions of their arguments and of     *)
(* the files and clock they read; each has a specification of its own      *)
(* (SpecMultiplier, SpecGenData) that calls it once on every input of a    *)
(* bounded set, call holding the arguments and result what came back.      *)
(***************************************************************************)
EXTENDS Integers, Sequences, FiniteSets, TLC

VARIABLES
    pc,           \* position of run_tc
    ret,          \* how run_tc ended: "running", "Ok", "Err:<why>" or "panic<:where>"
    options,      \* RunOptions after options.into()
    valid_points, \* the valid_points argument
    envRead,      \* what fetch_env / env::var answered, per variable
    subtask,      \* Option<String>: the subtask tag handed to init_fn
    file,         \* <output_dir>/result.txt: whether it exists, and its lines
    tc_ok,        \* accepted counter
    tc_n,         \* iterated counter
    iter,         \* the Initializer's sequence: size hint and items left
    total_tc_n,   \* the exact count taken from size_hint: None until sizing
    stdout,       \* lines printed on the progress channel
    stderr,       \* lines printed on the error channel
    calls,        \* the calls made to init_fn, gen_fn and check_fn, with results
    dbOpen,       \* Connection::open has succeeded
    source,       \* the submitted source: "unread", "read" or "failed"
    rows,         \* rows inserted into submissions
    call,         \* a call of get_multiplier or gen_data on its own: the arguments
    result        \* what that call came back with: None until it has

\* The state of a run of run_tc.
runVars == <<pc, ret, options, valid_points, envRead, subtask, file, tc_ok, tc_n,
             iter, total_tc_n, stdout, stderr, calls, dbOpen, source, rows>>

\* The state of a call of a function on its own.
fnVars == <<call, result>>

vars == <<runVars, fnVars>>

----------------------------------------------------------------------------
(* Bounds of the model *)

\* Largest number of items (and largest size hint) of the Initializer's sequence.
MaxCases == 2

----------------------------------------------------------------------------
(* Values *)

\* Option<T>: None, or Some(x).
None == << >>
Some(x) == << x >>

\* No call of a function on its own.
NoCall == [fn |-> "none"]

\* No result.txt in the output directory.
NoFile == [exists |-> FALSE, lines |-> << >>]

\* The iterator before init_fn has returned it.
NoIter == [lo |-> 0, hi |-> None, len |-> 0, rest |-> 0]

\* Default for RunOptions: time_limit 1.0 s (in ticks), public_wall_time true.
DefaultTimeLimit == 5000

\* Width of the zero padded case number, {tc_n:03}.
CaseWidth == 3

\* Digits after the decimal point of the reported time, {:.3}.
TimePrecision == 3

\* Time limits a caller passes, in ticks: 1.0 s and 1.5 s.
TimeLimits == {5000, 7500}

\* Wall times of a checker call, in ticks: 1.0 s and 1.0004 s.  The first is
\* at the shorter limit, the second above it by less than {:.3} shows, both
\* are below the longer limit.
ElapsedVals == {5000, 5002}

\* Messages a checker attaches to its verdict.
Messages == {"expected 5 got 4"}

\* Subtask tags found in TAL_size.
Tags == {"small"}

EnvNames == {"TAL_size", "TAL_META_OUTPUT_FILES", "TAL_META_EXP_TOKEN",
             "TAL_EXT_EXAM_DB", "TAL_META_CODENAME", "TAL_META_EXP_ADDRESS",
             "TAL_META_INPUT_FILES", "TAL_META_DIR"}

\* A result.txt left behind by an earlier run.
StaleDoc ==
    [exists |-> TRUE,
     lines |-> << [kind |-> "stale", text |-> "Score: 9/9", case |-> 0, acr |-> ""] >>]

----------------------------------------------------------------------------
(* Verdict and RunOptions conversions *)

\* impl From<bool> for Verdict
VerdictFromBool(ok) == [ok |-> ok, msg |-> None]

\* impl From<(bool, Option<String>)> for Verdict
VerdictFromOpt(ok, msg) == [ok |-> ok, msg |-> msg]

\* impl From<(bool, String)> for Verdict
VerdictFromPair(ok, msg) == [ok |-> ok, msg |-> Some(msg)]

\* Every Verdict a checker's return value converts into.
Verdicts ==
    {VerdictFromBool(ok) : ok \in BOOLEAN}
    \cup {VerdictFromOpt(ok, m) : ok \in BOOLEAN, m \in {Some(t) : t \in Messages} \cup {None}}
    \cup {VerdictFromPair(ok, m) : ok \in BOOLEAN, m \in Messages}

\* impl From<f64> for RunOptions
OptionsFromF64(t) == [time_limit |-> t, public_wall_time |-> TRUE]

\* impl Default for RunOptions
OptionsDefault == [time_limit |-> DefaultTimeLimit, public_wall_time |-> TRUE]

\* Every RunOptions the options argument converts into.
OptionsInputs ==
    {OptionsDefault}
    \cup {OptionsFromF64(t) : t \in TimeLimits}
    \cup {[time_limit |-> t, public_wall_time |-> b] : t \in TimeLimits, b \in BOOLEAN}

----------------------------------------------------------------------------
(* Formatting *)

DigitChars == <<"0", "1", "2", "3", "4", "5", "6", "7", "8", "9">>

\* Decimal rendering of a natural number ({} on an integer).
RECURSIVE Dec(_)
Dec(n) == IF n < 10 THEN DigitChars[n + 1]
          ELSE Dec(n \div 10) \o DigitChars[(n % 10) + 1]

\* Left padding with zeros up to a minimum width ({:0w}); longer text is kept.
RECURSIVE ZeroPad(_, _)
ZeroPad(s, w) == IF Len(s) >= w THEN s ELSE ZeroPad("0" \o s, w)

\* CaseNo without the padding.
CaseNoPlain(n) == Dec(n)

\* {tc_n:03}
CaseNo(n) == ZeroPad(Dec(n), CaseWidth)

\* {:.3} of a duration in seconds, the duration given in ticks: rounded to the
\* nearest millisecond (1, 2 ticks over go down, 3, 4 ticks go up).
FormatSecs(ticks) ==
    LET ms == (ticks + 2) \div 5 IN
    Dec(ms \div 1000) \o "." \o ZeroPad(Dec(ms % 1000), TimePrecision)

Line(kind, text, case, acr) == [kind |-> kind, text |-> text, case |-> case, acr |-> acr]

BlankLine == Line("blank", "", 0, "")

\* RELine with a time field, as the other outcomes have.
RELineTimed(n) == Line("verdict", "Case #" \o CaseNo(n) \o ": RE | Time: 0.000s", n, "RE")

\* The line of a case whose checker failed.
RELine(n) == Line("verdict", "Case #" \o CaseNo(n) \o ": RE", n, "RE")

\* The closure p_verdict: the line of a case whose checker returned.
VerdictLine(n, acr, public_wall_time, elapsed) ==
    Line("verdict",
         "Case #" \o CaseNo(n) \o ": " \o acr
            \o (IF public_wall_time THEN " | Time: " \o FormatSecs(elapsed) \o "s" ELSE ""),
         n, acr)

\* MsgBlock without the closing blank line.
MsgBlockOpen(msg) ==
    IF msg = None THEN << >>
    ELSE << BlankLine, Line("msg", msg[1], 0, "") >>

\* The lines written for the verdict's message, if it has one.
MsgBlock(msg) ==
    IF msg = None THEN << >>
    ELSE << BlankLine, Line("msg", msg[1], 0, ""), BlankLine >>

\* ScoreLines with the declared total in place of the iterated counter.
ScoreLinesDeclared(ok, n) ==
    << BlankLine, Line("score", "Score: " \o Dec(ok) \o "/" \o Dec(total_tc_n[1]), 0, "") >>

\* The two closing lines.
ScoreLines(ok, n) ==
    << BlankLine, Line("score", "Score: " \o Dec(ok) \o "/" \o Dec(n), 0, "") >>

----------------------------------------------------------------------------
(* Classification *)

\* Classify with the limit itself counted as exceeded.
ClassifyAtLimit(elapsed, time_limit, ok) ==
    IF elapsed >= time_limit THEN "TLE"
    ELSE IF ok THEN "AC"
    ELSE "WA"

\* The outcome of a case whose checker returned.
Classify(elapsed, time_limit, ok) ==
    IF elapsed > time_limit THEN "TLE"
    ELSE IF ok THEN "AC"
    ELSE "WA"

\* Accepted with every case but a wrong answer counted.
AcceptedUnlessWA(acr, count) == IF acr # "WA" THEN count + 1 ELSE count

\* The accepted counter after a case with that outcome.
Accepted(acr, count) == IF acr = "AC" THEN count + 1 ELSE count

\* ExactSize trusting the lower bound alone.
ExactSizeLower(lo, hi) == Some(lo)

\* Lines 128-131: the exact count of a size hint (lower, upper), if it has one.
ExactSize(lo, hi) == IF hi # None /\ lo = hi[1] THEN Some(lo) ELSE None

----------------------------------------------------------------------------
(* get_multiplier *)

\* An entry of a codename's list: its expiration_date is missing ("absent"), not
\* a string ("nonstr"), a string that is no %Y-%m-%d date ("bad") or a date (a
\* day number); its multiplier is missing, not an unsigned integer, or a u64.
DateAbsent == [kind |-> "absent", day |-> 0]
DateNonStr == [kind |-> "nonstr", day |-> 0]
DateBad == [kind |-> "bad", day |-> 0]
DateOn(d) == [kind |-> "date", day |-> d]
MultAbsent == [kind |-> "absent", val |-> 0]
MultNonInt == [kind |-> "nonint", val |-> 0]
MultOf(m) == [kind |-> "u64", val |-> m]
Entry(date, mult) == [date |-> date, mult |-> mult]

\* What get_multiplier ends with: a value, or a panic.
Returned(m) == [panic |-> FALSE, value |-> m]
Panicked == [panic |-> TRUE, value |-> 0]

\* A scan that takes the first dated entry with a multiplier, expired or not.
RECURSIVE ScanScoresAnyDay(_, _, _)
ScanScoresAnyDay(score_list, i, today) ==
    IF i > Len(score_list) THEN Returned(1)
    ELSE LET score == score_list[i] IN
         IF score.date.kind \in {"absent", "nonstr"}
         THEN ScanScoresAnyDay(score_list, i + 1, today)
         ELSE IF score.date.kind = "bad" THEN Panicked
         ELSE IF score.mult.kind = "u64"
              THEN Returned(score.mult.val)
              ELSE ScanScoresAnyDay(score_list, i + 1, today)

\* Lines 85-103: the scan of a codename's list from position i on.
RECURSIVE ScanScores(_, _, _)
ScanScores(score_list, i, today) ==
    IF i > Len(score_list) THEN Returned(1)
    ELSE LET score == score_list[i] IN
         IF score.date.kind \in {"absent", "nonstr"}
         THEN ScanScores(score_list, i + 1, today)
         ELSE IF score.date.kind = "bad" THEN Panicked
         ELSE IF score.date.day >= today /\ score.mult.kind = "u64"
              THEN Returned(score.mult.val)
              ELSE ScanScores(score_list, i + 1, today)

\* A lookup that parses every date of the list before it scans.
get_multiplier_eager(meta_dir, scores, today) ==
    IF meta_dir # "dir" THEN Panicked
    ELSE IF scores.state = "absent" THEN Returned(1)
    ELSE IF scores.state \in {"unreadable", "invalid"} THEN Panicked
    ELSE IF scores.entry.kind # "seq" THEN Returned(1)
    ELSE IF \E i \in 1..Len(scores.entry.list) : scores.entry.list[i].date.kind = "bad"
         THEN Panicked
         ELSE ScanScores(scores.entry.list, 1, today)

\* Lines 65-104.  meta_dir: TAL_META_DIR is "absent", has no parent ("root") or
\* is a directory under one ("dir"); scores: the state of scores.yaml beside it
\* and, once parsed, what mappings.get(title) finds.
get_multiplier(meta_dir, scores, today) ==
    IF meta_dir # "dir" THEN Panicked
    ELSE IF scores.state = "absent" THEN Returned(1)
    ELSE IF scores.state \in {"unreadable", "invalid"} THEN Panicked
    ELSE IF scores.entry.kind # "seq" THEN Returned(1)
    ELSE ScanScores(scores.entry.list, 1, today)

\* scores.yaml: missing, unreadable, not YAML, or parsed with the looked-up
\* codename missing ("none"), not a sequence ("other") or a list of entries.
ScoresFile(state) == [state |-> state, entry |-> [kind |-> "none", list |-> << >>]]
ScoresWith(kind, list) == [state |-> "parsed", entry |-> [kind |-> kind, list |-> list]]

\* The days (day numbers) a run takes place on.
Days == {10, 11}

\* The score documents a run meets.
RunScores ==
    {ScoresFile("absent"), ScoresFile("invalid"),
     ScoresWith("seq", << Entry(DateOn(9), MultOf(3)),
                           Entry(DateOn(10), MultOf(2)),
                           Entry(DateOn(12), MultOf(5)) >>)}

----------------------------------------------------------------------------
(* Inputs *)

\* The sequences init_fn returns: a size hint (lo, hi), the number of items the
\* iterator yields in all (len) and has yet to yield (rest).  Iterator::size_hint
\* is a hint: safe code may report a count the iteration does not keep; the
\* sequences here yield their lower bound, one item less or one item more.
Iters ==
    UNION {
        {[lo |-> lo, hi |-> hi, len |-> n, rest |-> n] :
            hi \in {None} \cup {Some(m) : m \in 0..MaxCases},
            n \in {k \in 0..MaxCases : k - lo \in {-1, 0, 1}}} :
        lo \in 0..MaxCases}

\* What fetch_env answers for a variable.
EnvAnswers == {"absent", "present"}

\* run_tc returns r.
Return(r) == pc' = "done" /\ ret' = r

----------------------------------------------------------------------------
(* run_tc *)

Init ==
    /\ pc = "start"
    /\ ret = "running"
    /\ options \in OptionsInputs
    /\ valid_points \in BOOLEAN
    /\ envRead = [v \in EnvNames |-> "unread"]
    /\ subtask = None
    /\ file \in {NoFile, StaleDoc}
    /\ tc_ok = 0
    /\ tc_n = 0
    /\ iter = NoIter
    /\ total_tc_n = None
    /\ stdout = << >>
    /\ stderr = << >>
    /\ calls = << >>
    /\ dbOpen = FALSE
    /\ source = "unread"
    /\ rows = << >>
    /\ call = NoCall
    /\ result = None

\* Configuration that goes on without an output directory.
FetchConfigLenient ==
    /\ pc = "start"
    /\ \E size \in EnvAnswers, out \in EnvAnswers, tag \in Tags :
        /\ envRead' = [envRead EXCEPT !["TAL_size"] = size,
                                      !["TAL_META_OUTPUT_FILES"] = out]
        /\ subtask' = IF size = "present" THEN Some(tag) ELSE None
        /\ pc' = "create" /\ ret' = ret
    /\ UNCHANGED <<options, valid_points, file, tc_ok, tc_n, iter, total_tc_n,
                   stdout, stderr, calls, dbOpen, source, rows, fnVars>>

\* Lines 122-123: the subtask tag (optional) and the output directory (required).
FetchConfig ==
    /\ pc = "start"
    /\ \E size \in EnvAnswers, out \in EnvAnswers, tag \in Tags :
        /\ envRead' = [envRead EXCEPT !["TAL_size"] = size,
                                      !["TAL_META_OUTPUT_FILES"] = out]
        /\ subtask' = IF size = "present" THEN Some(tag) ELSE None
        /\ IF out = "present"
           THEN pc' = "create" /\ ret' = ret
           ELSE Return("Err:env TAL_META_OUTPUT_FILES")
    /\ UNCHANGED <<options, valid_points, file, tc_ok, tc_n, iter, total_tc_n,
                   stdout, stderr, calls, dbOpen, source, rows, fnVars>>

\* A result file opened for appending: what is there stays.
CreateFileAppend ==
    /\ pc = "create"
    /\ \E created \in BOOLEAN :
        IF created
        THEN /\ file' = [exists |-> TRUE, lines |-> file.lines]
             /\ pc' = "init" /\ ret' = ret
        ELSE /\ file' = file
             /\ Return("Err:create")
    /\ tc_ok' = 0
    /\ tc_n' = 0
    /\ UNCHANGED <<options, valid_points, envRead, subtask, iter, total_tc_n,
                   stdout, stderr, calls, dbOpen, source, rows, fnVars>>

\* A result file that is created only with its first write.
CreateFileDeferred ==
    /\ pc = "create"
    /\ \E created \in BOOLEAN :
        IF created
        THEN /\ file' = file
             /\ pc' = "init" /\ ret' = ret
        ELSE /\ file' = file
             /\ Return("Err:create")
    /\ tc_ok' = 0
    /\ tc_n' = 0
    /\ UNCHANGED <<options, valid_points, envRead, subtask, iter, total_tc_n,
                   stdout, stderr, calls, dbOpen, source, rows, fnVars>>

\* Lines 124-126: File::create truncates or creates result.txt; the counters start at 0.
CreateFile ==
    /\ pc = "create"
    /\ \E created \in BOOLEAN :
        IF created
        THEN /\ file' = [exists |-> TRUE, lines |-> << >>]
             /\ pc' = "init" /\ ret' = ret
        ELSE /\ file' = file
             /\ Return("Err:create")
    /\ tc_ok' = 0
    /\ tc_n' = 0
    /\ UNCHANGED <<options, valid_points, envRead, subtask, iter, total_tc_n,
                   stdout, stderr, calls, dbOpen, source, rows, fnVars>>

\* Line 127: init_fn(subtask)?.into_iter()
CallInit ==
    /\ pc = "init"
    /\ \/ /\ calls' = Append(calls, [fn |-> "init", arg |-> subtask, res |-> "Err"])
          /\ iter' = iter
          /\ Return("Err:init")
       \/ \E it \in Iters :
          /\ calls' = Append(calls, [fn |-> "init", arg |-> subtask, res |-> "Ok"])
          /\ iter' = it
          /\ pc' = "size" /\ ret' = ret
    /\ UNCHANGED <<options, valid_points, envRead, subtask, file, tc_ok, tc_n,
                   total_tc_n, stdout, stderr, dbOpen, source, rows, fnVars>>

\* SizeHint with the count written into the result document as well.
SizeHintIntoFile ==
    /\ pc = "size"
    /\ LET n == ExactSize(iter.lo, iter.hi) IN
        IF n # None
        THEN /\ total_tc_n' = n
             /\ \E printed \in BOOLEAN :
                 IF printed
                 THEN /\ stdout' = Append(stdout, Dec(n[1]))
                      /\ file' = [file EXCEPT !.lines = Append(@, Line("count", Dec(n[1]), 0, ""))]
                      /\ pc' = "next" /\ ret' = ret
                 ELSE /\ stdout' = stdout
                      /\ file' = file
                      /\ Return("panic:stdout")
        ELSE /\ total_tc_n' = total_tc_n
             /\ stdout' = stdout
             /\ file' = file
             /\ Return("Err:size")
    /\ UNCHANGED <<options, valid_points, envRead, subtask, tc_ok, tc_n,
                   iter, stderr, calls, dbOpen, source, rows, fnVars>>

\* Lines 128-133: the exact count, or an error; the count goes to stdout, or
\* println! panics.
SizeHint ==
    /\ pc = "size"
    /\ LET n == ExactSize(iter.lo, iter.hi) IN
        IF n # None
        THEN /\ total_tc_n' = n
             /\ \E printed \in BOOLEAN :
                 IF printed
                 THEN /\ stdout' = Append(stdout, Dec(n[1]))
                      /\ pc' = "next" /\ ret' = ret
                 ELSE /\ stdout' = stdout
                      /\ Return("panic:stdout")
        ELSE /\ total_tc_n' = total_tc_n
             /\ stdout' = stdout
             /\ Return("Err:size")
    /\ UNCHANGED <<options, valid_points, envRead, subtask, file, tc_ok, tc_n,
                   iter, stderr, calls, dbOpen, source, rows, fnVars>>

\* A loop that counts a case without taking it off the sequence.
NextParamAgain ==
    /\ pc = "next"
    /\ IF iter.rest > 0
       THEN /\ iter' = iter
            /\ tc_n' = tc_n + 1
            /\ pc' = "gen"
       ELSE /\ iter' = iter
            /\ tc_n' = tc_n
            /\ pc' = "score"
    /\ UNCHANGED <<ret, options, valid_points, envRead, subtask, file, tc_ok,
                   total_tc_n, stdout, stderr, calls, dbOpen, source, rows, fnVars>>

\* Lines 134-135: the for loop takes the next parameter, or ends.
NextParam ==
    /\ pc = "next"
    /\ IF iter.rest > 0
       THEN /\ iter' = [iter EXCEPT !.rest = @ - 1]
            /\ tc_n' = tc_n + 1
            /\ pc' = "gen"
       ELSE /\ iter' = iter
            /\ tc_n' = tc_n
            /\ pc' = "score"
    /\ UNCHANGED <<ret, options, valid_points, envRead, subtask, file, tc_ok,
                   total_tc_n, stdout, stderr, calls, dbOpen, source, rows, fnVars>>

\* Generate with a failure handled as the checker's is: an RE line, and on.
GenerateCaught ==
    /\ pc = "gen"
    /\ \E ok \in BOOLEAN, flushed \in BOOLEAN :
        /\ calls' = Append(calls, [fn |-> "gen", case |-> tc_n,
                                   res |-> IF ok THEN "Ok" ELSE "Err"])
        /\ IF ok
           THEN /\ file' = file
                /\ IF flushed
                   THEN pc' = "check" /\ ret' = ret
                   ELSE Return("Err:flush")
           ELSE /\ flushed
                /\ file' = [file EXCEPT !.lines = Append(@, RELine(tc_n))]
                /\ pc' = "next" /\ ret' = ret
    /\ UNCHANGED <<options, valid_points, envRead, subtask, tc_ok, tc_n,
                   iter, total_tc_n, stdout, stderr, dbOpen, source, rows, fnVars>>

\* Lines 136-137: gen_fn(tc_param)?, then stdout().flush()?
Generate ==
    /\ pc = "gen"
    /\ \E ok \in BOOLEAN, flushed \in BOOLEAN :
        /\ calls' = Append(calls, [fn |-> "gen", case |-> tc_n,
                                   res |-> IF ok THEN "Ok" ELSE "Err"])
        /\ IF ok
           THEN IF flushed
                THEN pc' = "check" /\ ret' = ret
                ELSE Return("Err:flush")
           ELSE flushed /\ Return("Err:gen")
    /\ UNCHANGED <<options, valid_points, envRead, subtask, file, tc_ok, tc_n,
                   iter, total_tc_n, stdout, stderr, dbOpen, source, rows, fnVars>>

\* The first k of the lines, written one writeln! after the other.
Written(lines, k) == SubSeq(lines, 1, k)

\* Lines 141-145: the checker failed.  The RE line is written or the run ends
\* with the write's error; then eprintln! prints or panics.
CheckFailed(took) ==
    /\ calls' = Append(calls, [fn |-> "check", case |-> tc_n, res |-> "Err",
                               took |-> took])
    /\ tc_ok' = tc_ok
    /\ \E wrote \in BOOLEAN, printed \in BOOLEAN :
        IF ~wrote
        THEN /\ printed
             /\ file' = file
             /\ stderr' = stderr
             /\ Return("Err:write")
        ELSE /\ file' = [file EXCEPT !.lines = Append(@, RELine(tc_n))]
             /\ IF printed
                THEN stderr' = Append(stderr, "Check error") /\ pc' = "next" /\ ret' = ret
                ELSE stderr' = stderr /\ Return("panic:stderr")

\* Lines 140, 147-170: the checker returned a verdict after `elapsed`.  The
\* verdict line and the lines of the message are written one by one; the first
\* write that fails ends the run, and the case is counted once its AC line is
\* written.
CheckReturned(verdict, elapsed) ==
    LET acr == Classify(elapsed, options.time_limit, verdict.ok)
        lines == << VerdictLine(tc_n, acr, options.public_wall_time, elapsed) >>
                 \o MsgBlock(verdict.msg)
    IN
    /\ calls' = Append(calls, [fn |-> "check", case |-> tc_n, res |-> "Ok",
                               took |-> elapsed, verdict |-> verdict])
    /\ stderr' = stderr
    /\ \E k \in 0..Len(lines) :
        /\ file' = [file EXCEPT !.lines = @ \o Written(lines, k)]
        /\ tc_ok' = IF k = 0 THEN tc_ok ELSE Accepted(acr, tc_ok)
        /\ IF k = Len(lines)
           THEN pc' = "next" /\ ret' = ret
           ELSE Return("Err:write")

\* Lines 138-171: check_fn(tc), timed.
Check ==
    /\ pc = "check"
    /\ \/ \E took \in ElapsedVals : CheckFailed(took)
       \/ \E v \in Verdicts, elapsed \in ElapsedVals : CheckReturned(v, elapsed)
    /\ UNCHANGED <<options, valid_points, envRead, subtask, tc_n, iter,
                   total_tc_n, stdout, dbOpen, source, rows, fnVars>>

\* Closing lines that are left out when the run goes on to persistence.
ScoreUnlessPersisting ==
    /\ pc = "score"
    /\ \E k \in 0..2 :
        IF valid_points
        THEN k = 2 /\ file' = file /\ pc' = "gate" /\ ret' = ret
        ELSE /\ file' = [file EXCEPT !.lines = @ \o Written(ScoreLines(tc_ok, tc_n), k)]
             /\ IF k = 2 THEN Return("Ok") ELSE Return("Err:write")
    /\ UNCHANGED <<options, valid_points, envRead, subtask, tc_ok, tc_n, iter,
                   total_tc_n, stdout, stderr, calls, dbOpen, source, rows, fnVars>>

\* Lines 172-174, 201: the closing lines, each written or the run ends with
\* the write's error; without valid_points the run is over.
Score ==
    /\ pc = "score"
    /\ \E k \in 0..2 :
        /\ file' = [file EXCEPT !.lines = @ \o Written(ScoreLines(tc_ok, tc_n), k)]
        /\ IF k < 2 THEN Return("Err:write")
           ELSE IF valid_points
                THEN pc' = "gate" /\ ret' = ret
                ELSE Return("Ok")
    /\ UNCHANGED <<options, valid_points, envRead, subtask, tc_ok, tc_n, iter,
                   total_tc_n, stdout, stderr, calls, dbOpen, source, rows, fnVars>>

\* Gate opened by either of the two values.
GateEither ==
    /\ pc = "gate"
    /\ \E token \in EnvAnswers, db_path \in EnvAnswers :
        /\ envRead' = [envRead EXCEPT !["TAL_META_EXP_TOKEN"] = token,
                                      !["TAL_EXT_EXAM_DB"] = db_path]
        /\ IF token = "present" \/ db_path = "present"
           THEN pc' = "open" /\ ret' = ret
           ELSE Return("Ok")
    /\ UNCHANGED <<options, valid_points, subtask, file, tc_ok, tc_n, iter,
                   total_tc_n, stdout, stderr, calls, dbOpen, source, rows, fnVars>>

\* Gate that treats a missing token or datastore location as an error.
GateStrict ==
    /\ pc = "gate"
    /\ \E token \in EnvAnswers, db_path \in EnvAnswers :
        /\ envRead' = [envRead EXCEPT !["TAL_META_EXP_TOKEN"] = token,
                                      !["TAL_EXT_EXAM_DB"] = db_path]
        /\ IF token = "present" /\ db_path = "present"
           THEN pc' = "open" /\ ret' = ret
           ELSE Return("Err:env TAL_META_EXP_TOKEN")
    /\ UNCHANGED <<options, valid_points, subtask, file, tc_ok, tc_n, iter,
                   total_tc_n, stdout, stderr, calls, dbOpen, source, rows, fnVars>>

\* Lines 175-179, 198: the token and the datastore location gate persistence.
Gate ==
    /\ pc = "gate"
    /\ \E token \in EnvAnswers, db_path \in EnvAnswers :
        /\ envRead' = [envRead EXCEPT !["TAL_META_EXP_TOKEN"] = token,
                                      !["TAL_EXT_EXAM_DB"] = db_path]
        /\ IF token = "present" /\ db_path = "present"
           THEN pc' = "open" /\ ret' = ret
           ELSE Return("Ok")
    /\ UNCHANGED <<options, valid_points, subtask, file, tc_ok, tc_n, iter,
                   total_tc_n, stdout, stderr, calls, dbOpen, source, rows, fnVars>>

\* Line 180: Connection::open(db_path)?
OpenDb ==
    /\ pc = "open"
    /\ \E opened \in BOOLEAN :
        IF opened
        THEN dbOpen' = TRUE /\ pc' = "problem" /\ ret' = ret
        ELSE dbOpen' = dbOpen /\ Return("Err:db")
    /\ UNCHANGED <<options, valid_points, envRead, subtask, file, tc_ok, tc_n,
                   iter, total_tc_n, stdout, stderr, calls, source, rows, fnVars>>

\* fetch_env(name) whose failure ends the run quietly.
FetchOptional(at, name, then) ==
    /\ pc = at
    /\ \E answer \in EnvAnswers :
        /\ envRead' = [envRead EXCEPT ![name] = answer]
        /\ IF answer = "present"
           THEN pc' = then /\ ret' = ret
           ELSE Return("Ok")
    /\ UNCHANGED <<options, valid_points, subtask, file, tc_ok, tc_n, iter,
                   total_tc_n, stdout, stderr, calls, dbOpen, source, rows, fnVars>>

\* fetch_env(name)? at position `at`, going on to `then`.
FetchRequired(at, name, then) ==
    /\ pc = at
    /\ \E answer \in EnvAnswers :
        /\ envRead' = [envRead EXCEPT ![name] = answer]
        /\ IF answer = "present"
           THEN pc' = then /\ ret' = ret
           ELSE Return("Err:env " \o name)
    /\ UNCHANGED <<options, valid_points, subtask, file, tc_ok, tc_n, iter,
                   total_tc_n, stdout, stderr, calls, dbOpen, source, rows, fnVars>>

\* Line 181
FetchProblem == FetchRequired("problem", "TAL_META_CODENAME", "address")

\* Line 182
FetchAddress == FetchRequired("address", "TAL_META_EXP_ADDRESS", "input")

\* Line 183, first half: the directory of the source file.
FetchInput == FetchRequired("input", "TAL_META_INPUT_FILES", "source")

\* Line 183, second half: fs::read(<input>/source)?
ReadSource ==
    /\ pc = "source"
    /\ \E read \in BOOLEAN :
        IF read
        THEN source' = "read" /\ pc' = "insert" /\ ret' = ret
        ELSE source' = "failed" /\ Return("Err:read")
    /\ UNCHANGED <<options, valid_points, envRead, subtask, file, tc_ok, tc_n,
                   iter, total_tc_n, stdout, stderr, calls, dbOpen, rows, fnVars>>

\* The row of lines 186-195.
Row(score, multiplier) ==
    [user_id |-> "token", problem |-> "codename", address |-> "address",
     subtime |-> "now", score |-> score, multiplier |-> multiplier,
     source |-> "source"]

\* Lines 185-197, 201: the parameters are evaluated (get_multiplier may panic),
\* then the row is inserted, or the statement fails.
Insert ==
    /\ pc = "insert"
    /\ \E meta_dir \in {"absent", "root", "dir"}, scores \in RunScores,
          today \in Days, executed \in BOOLEAN :
        LET m == get_multiplier(meta_dir, scores, today) IN
        /\ envRead' = [envRead EXCEPT !["TAL_META_DIR"] =
                           IF meta_dir = "absent" THEN "absent" ELSE "present"]
        /\ IF m.panic
           THEN rows' = rows /\ Return("panic")
           ELSE IF executed
                THEN rows' = Append(rows, Row(tc_ok, m.value)) /\ Return("Ok")
                ELSE rows' = rows /\ Return("Err:db")
    /\ UNCHANGED <<options, valid_points, subtask, file, tc_ok, tc_n, iter,
                   total_tc_n, stdout, stderr, calls, dbOpen, source, fnVars>>

Next ==
    \/ FetchConfig
    \/ CreateFile
    \/ CallInit
    \/ SizeHint
    \/ NextParam
    \/ Generate
    \/ Check
    \/ Score
    \/ Gate
    \/ OpenDb
    \/ FetchProblem
    \/ FetchAddress
    \/ FetchInput
    \/ ReadSource
    \/ Insert

Spec == Init /\ [][Next]_vars

\* run_tc is sequential code and every closure call returns: the run takes its
\* next step as long as it has one.
FairSpec == Spec /\ WF_vars(Next)

\* A run into an output directory where an earlier run left its result.txt.
InitRerun == Init /\ file = StaleDoc

SpecRerun == InitRerun /\ [][Next]_vars

----------------------------------------------------------------------------
(* get_multiplier on its own *)

\* Longest list of entries under a codename.
MaxEntries == 2

\* The expiration dates and multipliers of an entry; the days are the day
\* before, the first and the second of Days.
EntryDates == {DateAbsent, DateNonStr, DateBad, DateOn(9), DateOn(10), DateOn(11)}
EntryMults == {MultAbsent, MultNonInt, MultOf(2), MultOf(3)}
Entries == {Entry(d, m) : d \in EntryDates, m \in EntryMults}

\* The lists under a codename, and the score documents.
ScoreLists == UNION {[1..k -> Entries] : k \in 0..MaxEntries}
ScoreDocs ==
    {ScoresFile(st) : st \in {"absent", "unreadable", "invalid"}}
    \cup {ScoresWith("none", << >>), ScoresWith("other", << >>)}
    \cup {ScoresWith("seq", l) : l \in ScoreLists}

\* The calls of get_multiplier: the environment, the document and the day.
MultiplierCalls ==
    {[fn |-> "get_multiplier", meta_dir |-> d, scores |-> sc, today |-> t] :
        d \in {"absent", "root", "dir"}, sc \in ScoreDocs, t \in Days}

\* No run of run_tc is under way.
NoRun ==
    /\ pc = "lib"
    /\ ret = "running"
    /\ options = OptionsDefault
    /\ valid_points = FALSE
    /\ envRead = [v \in EnvNames |-> "unread"]
    /\ subtask = None
    /\ file = NoFile
    /\ tc_ok = 0
    /\ tc_n = 0
    /\ iter = NoIter
    /\ total_tc_n = None
    /\ stdout = << >>
    /\ stderr = << >>
    /\ calls = << >>
    /\ dbOpen = FALSE
    /\ source = "unread"
    /\ rows = << >>

InitMultiplier ==
    /\ NoRun
    /\ call \in MultiplierCalls
    /\ result = None

\* Lines 65-104: the call runs to its return or its panic.
CallGetMultiplier ==
    /\ call.fn = "get_multiplier"
    /\ result = None
    /\ result' = Some(get_multiplier(call.meta_dir, call.scores, call.today))
    /\ UNCHANGED <<runVars, call>>

NextMultiplier == CallGetMultiplier

SpecMultiplier == InitMultiplier /\ [][NextMultiplier]_vars

----------------------------------------------------------------------------
(* gen_data on its own *)

\* Longest table of groups, and largest number of copies of a group.
MaxGroups == 2
MaxCopies == 2

\* A group (name, n, v) of the table.
Group(name, n, v) == [name |-> name, n |-> n, v |-> v]

GroupNames == {"small", "large"}
GroupValues == {"X", "Y"}
Groups == {Group(name, n, v) : name \in GroupNames, n \in 0..MaxCopies, v \in GroupValues}

\* A table with more copies than the bound: five of X, then ten of Y.
SmallLargeTable == << Group("small", 5, "X"), Group("large", 10, "Y") >>

\* The tables, and the subtask tags: the last names no group.
Tables == UNION {[1..k -> Groups] : k \in 0..MaxGroups} \cup {SmallLargeTable}
Subtasks == GroupNames \cup {"huge"}

\* Lines 207-209: n pushes of a clone of v.
RECURSIVE PushCopies(_, _, _)
PushCopies(tc, n, v) ==
    IF n = 0 THEN tc ELSE PushCopies(Append(tc, v), n - 1, v)

\* A loop that leaves at the matching group before pushing its copies.
RECURSIVE GenLoopBreakFirst(_, _, _, _)
GenLoopBreakFirst(tag, data, i, tc) ==
    IF i > Len(data) THEN tc
    ELSE IF tag = data[i].name THEN tc
         ELSE GenLoopBreakFirst(tag, data, i + 1,
                                PushCopies(tc, data[i].n, data[i].v))

\* Lines 206-213: the loop over the groups from position i on.
RECURSIVE GenLoop(_, _, _, _)
GenLoop(tag, data, i, tc) ==
    IF i > Len(data) THEN tc
    ELSE LET pushed == PushCopies(tc, data[i].n, data[i].v) IN
         IF tag = data[i].name THEN pushed
         ELSE GenLoop(tag, data, i + 1, pushed)

\* Lines 204-215; tag is the subtask argument.
gen_data(tag, data) == GenLoop(tag, data, 1, << >>)

GenDataCalls ==
    {[fn |-> "gen_data", subtask |-> st, data |-> d] : st \in Subtasks, d \in Tables}

InitGenData ==
    /\ NoRun
    /\ call \in GenDataCalls
    /\ result = None

\* Lines 204-215: the call returns its vector.
CallGenData ==
    /\ call.fn = "gen_data"
    /\ result = None
    /\ result' = Some(gen_data(call.subtask, call.data))
    /\ UNCHANGED <<runVars, call>>

NextGenData == CallGenData

SpecGenData == InitGenData /\ [][NextGenData]_vars

----------------------------------------------------------------------------
(* Reading the state *)

Last(s) == s[Len(s)]

\* The verdict lines of the result document, in order.
VerdictLines == SelectSeq(file.lines, LAMBDA l : l.kind = "verdict")

\* The calls made to gen_fn and to check_fn, in order.
GenCalls == SelectSeq(calls, LAMBDA c : c.fn = "gen")
CheckCalls == SelectSeq(calls, LAMBDA c : c.fn = "check")

\* The number of verdict lines with a given outcome.
CountAcr(acr) ==
    LET written == VerdictLines IN
    Cardinality({i \in 1..Len(written) : written[i].acr = acr})

\* The Score line has been written.
ScoreWritten == Len(file.lines) > 0 /\ Last(file.lines).kind = "score"

\* The positions of the verdict lines in the result document.
VerdictPos ==
    SelectSeq([i \in 1..Len(file.lines) |-> i], LAMBDA i : file.lines[i].kind = "verdict")

\* A number in at least three digits.
ThreeDigits(n) ==
    IF n < 10 THEN "00" \o Dec(n) ELSE IF n < 100 THEN "0" \o Dec(n) ELSE Dec(n)

\* The run has got past sizing and the count's println!, into the loop or
\* beyond.
PastSizing ==
    /\ pc \notin {"start", "create", "init", "size"}
    /\ ret \notin {"Err:env TAL_META_OUTPUT_FILES", "Err:create", "Err:init", "Err:size",
                   "panic:stdout"}

\* The texts a time field takes.
TimeFields == {" | Time: " \o FormatSecs(e) \o "s" : e \in ElapsedVals}

----------------------------------------------------------------------------
(* Properties of the loop *)

\* C1: every case whose checker returned has the outcome its elapsed time, the
\* time limit and ok decide: TLE above the limit whatever ok is, else AC when
\* ok, else WA; and the accepted counter counts exactly the cases within the
\* limit with ok, so none that is TLE.  Only the last checker call may be
\* without its line, in a run that the failing write of that line ended.
C1_OutcomeByTimeAndOk ==
    LET checked == CheckCalls
        written == VerdictLines
    IN
    /\ Len(written) \in {Len(checked), Len(checked) - 1}
    /\ Len(written) < Len(checked) => ret = "Err:write"
    /\ \A i \in 1..Len(written) :
        LET c == checked[i] IN
        c.res = "Ok" =>
            /\ c.took > options.time_limit => written[i].acr = "TLE"
            /\ c.took <= options.time_limit /\ c.verdict.ok => written[i].acr = "AC"
            /\ c.took <= options.time_limit /\ ~c.verdict.ok => written[i].acr = "WA"
    /\ tc_ok = Cardinality({i \in 1..Len(written) :
                              /\ checked[i].res = "Ok"
                              /\ checked[i].took <= options.time_limit
                              /\ checked[i].verdict.ok})

\* A run with a case at the limit accepted and a case over it, ok, not accepted.
C1_Witness ==
    /\ pc = "done" /\ ret = "Ok"
    /\ Len(CheckCalls) = 2
    /\ CheckCalls[1].res = "Ok" /\ CheckCalls[1].verdict.ok
    /\ CheckCalls[1].took = options.time_limit
    /\ VerdictLines[1].acr = "AC"
    /\ CheckCalls[2].res = "Ok" /\ CheckCalls[2].verdict.ok
    /\ CheckCalls[2].took > options.time_limit
    /\ VerdictLines[2].acr = "TLE"
    /\ tc_ok = 1

\* C2: a failing checker call, however long it took, writes exactly the line
\* "Case #NNN: RE" (no time field, no message block), leaves the accepted
\* counter, and hands control back to the loop, which goes on to generate and
\* check every parameter still in the sequence.  The checker's error never
\* becomes the run's: the step ends the run only when the write of the RE line
\* fails (nothing written) or eprintln! panics (the RE line written).
C2_CheckerErrorIsRE ==
    [][/\ (pc = "check" /\ Last(calls').res = "Err") =>
            LET re == [kind |-> "verdict", text |-> "Case #" \o ThreeDigits(tc_n) \o ": RE",
                       case |-> tc_n, acr |-> "RE"]
            IN
            /\ tc_ok' = tc_ok
            /\ iter' = iter
            /\ \/ /\ file'.lines = Append(file.lines, re)
                  /\ stderr' = Append(stderr, "Check error")
                  /\ pc' = "next" /\ ret' = "running"
               \/ /\ file' = file
                  /\ stderr' = stderr
                  /\ pc' = "done" /\ ret' = "Err:write"
               \/ /\ file'.lines = Append(file.lines, re)
                  /\ stderr' = stderr
                  /\ pc' = "done" /\ ret' = "panic:stderr"
       /\ (pc = "next" /\ iter.rest > 0) => (pc' = "gen" /\ tc_n' = tc_n + 1)
       /\ (pc = "gen" /\ Last(calls').res = "Ok") =>
            \/ pc' = "check" /\ ret' = "running"
            \/ pc' = "done" /\ ret' = "Err:flush"
      ]_vars

\* A finished run, wall time public, whose first case failed in the checker
\* and whose second case was generated, checked and accepted.
C2_Witness ==
    /\ pc = "done" /\ ret = "Ok"
    /\ options.public_wall_time
    /\ Len(CheckCalls) = 2 /\ Len(GenCalls) = 2
    /\ CheckCalls[1].res = "Err"
    /\ VerdictLines[1].text = "Case #001: RE"
    /\ VerdictLines[2].acr = "AC"
    /\ tc_ok = 1

\* C3: once the generator has failed for case k the run is over with an error:
\* no checker call for case k, no call at all for a later case, no verdict line
\* for case k, no Score line, no submission row; the document holds the lines
\* of cases 1..k-1 and nothing of case k.
C3_GeneratorErrorAborts ==
    \A j \in 1..Len(calls) :
        (calls[j].fn = "gen" /\ calls[j].res = "Err") =>
            LET k == calls[j].case IN
            /\ j = Len(calls)
            /\ pc = "done" /\ ret = "Err:gen"
            /\ \A c \in 1..Len(CheckCalls) : CheckCalls[c].case < k
            /\ \A g \in 1..Len(GenCalls) : GenCalls[g].case <= k
            /\ Len(VerdictLines) = k - 1
            /\ \A i \in 1..Len(VerdictLines) : VerdictLines[i].case = i
            /\ \A i \in 1..Len(file.lines) : file.lines[i].kind # "score"
            /\ rows = << >>

\* The generator failed for the second case, after a first case was judged.
C3_Witness ==
    /\ ret = "Err:gen"
    /\ tc_n = 2
    /\ Len(VerdictLines) = 1
    /\ valid_points

\* C4: the accepted count of the Score line is the number of AC verdict lines
\* of the run, and the accepted counter never exceeds the iterated counter.
C4_ScoreCountsAC ==
    LET accepted == CountAcr("AC") IN
    /\ tc_ok <= tc_n
    /\ tc_ok = accepted
    /\ ScoreWritten =>
        \E b \in 0..(MaxCases + 1) :
            Last(file.lines).text = "Score: " \o Dec(accepted) \o "/" \o Dec(b)

\* A Score line after one case of each of AC and TLE, or AC and RE, or AC and WA.
C4_Witness ==
    /\ ScoreWritten
    /\ Len(VerdictLines) = 2
    /\ CountAcr("AC") = 1
    /\ CountAcr("TLE") = 1
    /\ Last(file.lines).text = "Score: 1/2"

\* C5 as claimed: the total of the Score line is the count the Initializer's
\* sequence declared, which the iteration always keeps.
C5_ScoreTotalIsDeclared ==
    ScoreWritten =>
        /\ Some(tc_n) = total_tc_n
        /\ \E a \in 0..(MaxCases + 1) :
            Last(file.lines).text = "Score: " \o Dec(a) \o "/" \o Dec(total_tc_n[1])

\* C5, amended: the total of the Score line is the number of cases iterated,
\* that is of items the sequence yielded, each with its verdict line; it is the
\* declared count whenever the sequence yields as many items as it declared.
C5_ScoreTotalIsIterated ==
    ScoreWritten =>
        /\ Len(VerdictLines) = iter.len
        /\ Last(file.lines).text = "Score: " \o Dec(tc_ok) \o "/" \o Dec(iter.len)
        /\ iter.len = iter.lo =>
            /\ Last(file.lines).text = "Score: " \o Dec(tc_ok) \o "/" \o Dec(total_tc_n[1])
            /\ stdout = << Dec(iter.len) >>

\* A Score line after two cases from a sequence that declared two.
C5_Witness ==
    /\ ScoreWritten
    /\ iter.lo = 2 /\ iter.len = 2
    /\ total_tc_n = Some(2)
    /\ Len(VerdictLines) = 2
    /\ stdout = << "2" >>

\* C6: the cases that went through the checker have one verdict line each, in
\* order: the i-th line is the i-th case's and carries i in three digits, and
\* the lines written are as many as the cases iterated (less the one under way
\* or cut short by the generator, the flush after it or the failing write of
\* its line, each of which ends the run).
C6_OneLinePerCaseInOrder ==
    LET checked == CheckCalls
        written == VerdictLines
    IN
    /\ Len(written) \in {Len(checked), Len(checked) - 1}
    /\ Len(written) < Len(checked) => ret = "Err:write"
    /\ Len(checked) =
        IF pc \in {"gen", "check"} \/ ret \in {"Err:gen", "Err:flush"}
        THEN tc_n - 1 ELSE tc_n
    /\ \A i \in 1..Len(checked) : checked[i].case = i
    /\ \A i \in 1..Len(written) :
        /\ written[i].case = i
        /\ written[i].acr \in {"AC", "WA", "TLE", "RE"}
        /\ \E t \in TimeFields \cup {""} :
            written[i].text = "Case #" \o ThreeDigits(i) \o ": " \o written[i].acr \o t

\* A finished run of an RE case and then a WA case.
C6_Witness ==
    /\ pc = "done" /\ ret = "Ok"
    /\ Len(VerdictLines) = 2
    /\ VerdictLines[1].text = "Case #001: RE"
    /\ VerdictLines[2].text = "Case #002: WA | Time: 1.000s"

\* C7: between a case's verdict line and the next verdict line (or the closing
\* lines, or the end of the document so far) stand exactly blank, message,
\* blank when the checker's verdict carried a message, whatever the outcome,
\* and nothing when it carried none or the checker failed.  In a run that a
\* failing write ended, the last case's lines are those written until then:
\* an initial part of its block and of the blank closing line.
C7_MessageBlockFollowsLine ==
    LET checked == CheckCalls
        at == VerdictPos
    IN
    /\ Len(at) \in {Len(checked), Len(checked) - 1}
    /\ \A i \in 1..Len(at) :
        LET c == checked[i]
            from == at[i] + 1
            to == IF i < Len(at) THEN at[i + 1] - 1
                  ELSE IF ScoreWritten THEN Len(file.lines) - 2
                  ELSE Len(file.lines)
            between == SubSeq(file.lines, from, to)
            blank == [kind |-> "blank", text |-> "", case |-> 0, acr |-> ""]
            block == IF c.res = "Ok" /\ c.verdict.msg # None
                     THEN << blank,
                             [kind |-> "msg", text |-> c.verdict.msg[1],
                              case |-> 0, acr |-> ""],
                             blank >>
                     ELSE << >>
            closing == block \o << blank >>
        IN  IF i = Len(at) /\ ret = "Err:write"
            THEN Len(between) <= Len(closing)
                 /\ between = SubSeq(closing, 1, Len(between))
            ELSE between = block

\* A TLE case and then an AC case, each with a message, in a finished document.
C7_Witness ==
    /\ ScoreWritten
    /\ Len(CheckCalls) = 2
    /\ CheckCalls[1].res = "Ok" /\ CheckCalls[1].verdict.msg # None
    /\ CheckCalls[2].res = "Ok" /\ CheckCalls[2].verdict.msg # None
    /\ VerdictLines[1].acr = "TLE"
    /\ VerdictLines[2].acr = "AC"
    /\ VerdictPos = << 1, 5 >>
    /\ Len(file.lines) = 10

----------------------------------------------------------------------------
(* Properties of sizing and of the progress channel *)

\* C8: when the sequence init_fn returned has no upper bound, or bounds that
\* differ, the run is over with the sizing error as soon as it is sized:
\* nothing on stdout, nothing in the result document, no generator or checker
\* call.
C8_InexactSizeAborts ==
    (/\ pc \notin {"start", "create", "init", "size"}
     /\ Len(calls) > 0 /\ calls[1].res = "Ok"
     /\ (iter.hi = None \/ iter.lo # iter.hi[1])) =>
        /\ pc = "done" /\ ret = "Err:size"
        /\ stdout = << >>
        /\ file.lines = << >>
        /\ Len(calls) = 1
        /\ total_tc_n = None
        /\ rows = << >>

\* A sequence with items to yield and a hint 0..1 has been refused.
C8_Witness ==
    /\ ret = "Err:size"
    /\ iter.lo = 0 /\ iter.hi = Some(1)
    /\ iter.len = 1
    /\ file.exists

\* C9: stdout holds the total count, once, from sizing on and before any
\* generator or checker call, and nothing else (a println! that panics ends
\* the run there, with nothing on stdout and no call made); the count is no
\* line of the result document, which starts with the first case's verdict
\* line or, without cases, with the blank line before "Score: 0/0".
C9_CountOnceOnStdoutOnly ==
    /\ stdout = IF PastSizing THEN << Dec(total_tc_n[1]) >> ELSE << >>
    /\ PastSizing <=> (total_tc_n # None /\ ret # "panic:stdout")
    /\ ret = "panic:stdout" => Len(calls) = 1 /\ file.lines = << >>
    /\ Len(GenCalls) + Len(CheckCalls) > 0 => Len(stdout) = 1
    /\ (PastSizing /\ file.lines # << >>) =>
        /\ \A i \in 1..Len(file.lines) :
            file.lines[i].kind \in {"verdict", "blank", "msg", "score"}
        /\ \/ file.lines[1].kind = "verdict" /\ file.lines[1].case = 1
           \/ /\ Len(file.lines) = 2
              /\ file.lines[1].kind = "blank"
              /\ file.lines[2].text = "Score: 0/0"
           \/ /\ Len(file.lines) = 1
              /\ file.lines[1].kind = "blank"
              /\ ret = "Err:write"

\* Two cases generated after the count 2 went to stdout, the document starting
\* with a verdict line.
C9_Witness ==
    /\ stdout = << "2" >>
    /\ Len(GenCalls) = 2
    /\ file.lines[1].kind = "verdict"
    /\ pc = "done"

----------------------------------------------------------------------------
(* Properties of persistence *)

\* C10: at most one submission row is inserted, and only with valid_points,
\* the token and the datastore location resolved, the codename, the address
\* and the source at hand, every case processed and the Score line written.
C10_InsertAtMostOnceWhenConfigured ==
    /\ Len(rows) <= 1
    /\ rows # << >> =>
        /\ valid_points
        /\ \A v \in {"TAL_META_EXP_TOKEN", "TAL_EXT_EXAM_DB", "TAL_META_CODENAME",
                     "TAL_META_EXP_ADDRESS", "TAL_META_INPUT_FILES"} :
                envRead[v] = "present"
        /\ source = "read"
        /\ dbOpen
        /\ iter.rest = 0
        /\ Len(VerdictLines) = iter.len
        /\ ScoreWritten
        /\ rows[1].score = CountAcr("AC")

\* A row with score 1 and multiplier 2 after a run of two cases.
C10_Witness ==
    /\ Len(rows) = 1
    /\ Len(VerdictLines) = 2
    /\ rows[1].score = 1
    /\ rows[1].multiplier = 2
    /\ ret = "Ok"

\* The variables read only inside the persistence branch, after the gate.
PersistenceDetails ==
    {"TAL_META_CODENAME", "TAL_META_EXP_ADDRESS", "TAL_META_INPUT_FILES",
     "TAL_META_DIR"}

\* The two variables of the gate.
GateNames == {"TAL_META_EXP_TOKEN", "TAL_EXT_EXAM_DB"}

\* C11: with valid_points, once the gate found the token or the datastore
\* location missing the run has returned Ok with no datastore opened, no row
\* inserted, and the codename, the address, the input directory and the source
\* never looked at; without valid_points no persistence variable is read at
\* all, nothing is opened or inserted, and the run returns Ok after the Score
\* line.
C11_PersistenceSkippedQuietly ==
    /\ (valid_points /\ \E v \in GateNames : envRead[v] = "absent") =>
        /\ pc = "done" /\ ret = "Ok"
        /\ ~dbOpen
        /\ rows = << >>
        /\ source = "unread"
        /\ \A v \in PersistenceDetails : envRead[v] = "unread"
        /\ \A v \in GateNames : envRead[v] # "unread"
    /\ ~valid_points =>
        /\ \A v \in GateNames \cup PersistenceDetails : envRead[v] = "unread"
        /\ ~dbOpen
        /\ rows = << >>
        /\ source = "unread"
        /\ ScoreWritten => pc = "done" /\ ret = "Ok"

\* valid_points with the token present and the datastore location missing: the
\* run of one case returned Ok after its Score line.
C11_Witness ==
    /\ valid_points
    /\ envRead["TAL_META_EXP_TOKEN"] = "present"
    /\ envRead["TAL_EXT_EXAM_DB"] = "absent"
    /\ ret = "Ok"
    /\ ScoreWritten
    /\ tc_n = 1

\* C12: past the gate, a missing codename, address or input directory ends the
\* run with that configuration error; the datastore is open by then, the
\* variables after the missing one are not read, and no row is inserted.
C12_MissingDetailIsHardError ==
    \A v \in {"TAL_META_CODENAME", "TAL_META_EXP_ADDRESS", "TAL_META_INPUT_FILES"} :
        envRead[v] = "absent" =>
            /\ pc = "done"
            /\ ret = "Err:env " \o v
            /\ valid_points
            /\ \A g \in GateNames : envRead[g] = "present"
            /\ dbOpen
            /\ source = "unread"
            /\ rows = << >>

\* The codename resolved and the address missing, after the datastore opened.
C12_Witness ==
    /\ envRead["TAL_META_CODENAME"] = "present"
    /\ envRead["TAL_META_EXP_ADDRESS"] = "absent"
    /\ dbOpen
    /\ ret = "Err:env TAL_META_EXP_ADDRESS"
    /\ ScoreWritten

----------------------------------------------------------------------------
(* Properties of get_multiplier *)

\* An entry whose expiration date is today or later and whose multiplier is an
\* unsigned integer.
Qualifies(e, today) ==
    e.date.kind = "date" /\ e.date.day >= today /\ e.mult.kind = "u64"

\* The position of the first qualifying entry of a list, 0 when there is none.
FirstQualifying(list, today) ==
    LET Q == {i \in 1..Len(list) : Qualifies(list[i], today)} IN
    IF Q = {} THEN 0 ELSE CHOOSE i \in Q : \A j \in Q : i <= j

\* The list of the looked-up codename: empty unless the document is there,
\* parses and holds a sequence under the codename.
LookedUpList(c) ==
    IF c.scores.state = "parsed" /\ c.scores.entry.kind = "seq"
    THEN c.scores.entry.list ELSE << >>

\* TAL_META_DIR names a directory with a parent, the document is absent or
\* parses, and no expiration date of the list is a malformed string.
WellFormedLookup(c) ==
    /\ c.meta_dir = "dir"
    /\ c.scores.state \in {"absent", "parsed"}
    /\ \A i \in 1..Len(LookedUpList(c)) : LookedUpList(c)[i].date.kind # "bad"

\* C13: a call of get_multiplier that returns, returns the multiplier of the
\* first entry in document order that is not expired and carries a u64
\* multiplier, and 1 when there is none (document absent, codename missing or
\* no sequence, nothing qualifies); on a well-formed lookup it does return.
C13_FirstUnexpiredMultiplier ==
    (call.fn = "get_multiplier" /\ result # None) =>
        LET list == LookedUpList(call)
            k == FirstQualifying(list, call.today)
        IN /\ WellFormedLookup(call) => ~result[1].panic
           /\ ~result[1].panic =>
                result[1].value = IF k = 0 THEN 1 ELSE list[k].mult.val

\* An expired entry with multiplier 3 before an entry valid through today with
\* multiplier 2: the call returned 2.
C13_Witness ==
    /\ call.fn = "get_multiplier"
    /\ call.today = 10
    /\ LookedUpList(call) = << Entry(DateOn(9), MultOf(3)), Entry(DateOn(10), MultOf(2)) >>
    /\ result = Some(Returned(2))

\* C14 as stated: the call panics whenever the document is there and cannot be
\* read or parsed, or an entry anywhere in the codename's list has a malformed
\* date string.
C14_FatalWhereverMalformed ==
    (/\ call.fn = "get_multiplier" /\ result # None /\ call.meta_dir = "dir"
     /\ \/ call.scores.state \in {"unreadable", "invalid"}
        \/ \E i \in 1..Len(LookedUpList(call)) : LookedUpList(call)[i].date.kind = "bad")
        => result[1].panic

\* C14: the call panics exactly when TAL_META_DIR is missing or has no parent,
\* the document is there and cannot be read or parsed, or the scan reaches a
\* malformed date string, that is one with no qualifying entry before it; an
\* absent document gives 1.
C14_FatalWhenScanReachesMalformed ==
    (call.fn = "get_multiplier" /\ result # None) =>
        LET list == LookedUpList(call) IN
        /\ result[1].panic <=>
            \/ call.meta_dir # "dir"
            \/ call.scores.state \in {"unreadable", "invalid"}
            \/ \E i \in 1..Len(list) :
                /\ list[i].date.kind = "bad"
                /\ \A j \in 1..(i - 1) : ~Qualifies(list[j], call.today)
        /\ (call.meta_dir = "dir" /\ call.scores.state = "absent") =>
                result[1] = Returned(1)

\* A malformed date string behind a qualifying entry: the call returned the
\* qualifying entry's multiplier.
C14_Witness ==
    /\ call.fn = "get_multiplier"
    /\ call.today = 10
    /\ LookedUpList(call) = << Entry(DateOn(11), MultOf(3)), Entry(DateBad, MultOf(2)) >>
    /\ result = Some(Returned(3))

----------------------------------------------------------------------------
(* Properties of gen_data *)

\* The position of the first group named tag, the last position when no
\* group is.
LastGroup(tag, data) ==
    LET M == {i \in 1..Len(data) : data[i].name = tag} IN
    IF M = {} THEN Len(data) ELSE CHOOSE i \in M : \A j \in M : i <= j

\* The sum of n over the first k groups.
RECURSIVE SumN(_, _)
SumN(data, k) == IF k = 0 THEN 0 ELSE SumN(data, k - 1) + data[k].n

\* C15: gen_data returns the n copies of each group's value, in table order, of
\* the groups up to and including the first one named subtask (of all groups
\* when none is), and nothing else: its length is the sum of n over them.
C15_GenDataIsPrefixThroughMatch ==
    (call.fn = "gen_data" /\ result # None) =>
        LET data == call.data
            k == LastGroup(call.subtask, data)
            tc == result[1]
        IN /\ Len(tc) = SumN(data, k)
           /\ \A i \in 1..k : \A j \in 1..data[i].n :
                tc[SumN(data, i - 1) + j] = data[i].v

\* The table [(small,5,X),(large,10,Y)] with subtask small: five copies of X.
C15_Witness ==
    /\ call.fn = "gen_data"
    /\ call.subtask = "small"
    /\ call.data = SmallLargeTable
    /\ result = Some(<< "X", "X", "X", "X", "X" >>)

----------------------------------------------------------------------------
(* Properties of configuration and of the result document's creation *)

\* C16: a missing output directory ends the run with that configuration error
\* before anything else: no init_fn, gen_fn or check_fn call, nothing on
\* stdout, the output directory's result.txt neither created nor touched; a
\* missing TAL_size is no error, and init_fn is then called with None (with
\* the tag when it is set).
C16_NoOutputDirStopsBeforeAnything ==
    /\ envRead["TAL_META_OUTPUT_FILES"] = "absent" =>
        /\ pc = "done"
        /\ ret = "Err:env TAL_META_OUTPUT_FILES"
        /\ calls = << >>
        /\ stdout = << >>
        /\ stderr = << >>
        /\ file \in {NoFile, StaleDoc}
    /\ ret = "Err:env TAL_META_OUTPUT_FILES" =>
        envRead["TAL_META_OUTPUT_FILES"] = "absent"
    /\ ret # "Err:env TAL_size"
    /\ envRead["TAL_size"] = "absent" => subtask = None
    /\ envRead["TAL_size"] = "present" => subtask \in {Some(t) : t \in Tags}
    /\ calls # << >> =>
        /\ calls[1].fn = "init"
        /\ calls[1].arg = subtask
        /\ envRead["TAL_META_OUTPUT_FILES"] = "present"

\* TAL_size set and no output directory: the run ended with the configuration
\* error and no result.txt.
C16_Witness ==
    /\ envRead["TAL_size"] = "present"
    /\ envRead["TAL_META_OUTPUT_FILES"] = "absent"
    /\ ret = "Err:env TAL_META_OUTPUT_FILES"
    /\ file = NoFile
    /\ calls = << >>

\* a is an initial part of b.
IsPrefix(a, b) == Len(a) <= Len(b) /\ SubSeq(b, 1, Len(a)) = a

\* The run has created its result document.
Created == pc \notin {"start", "create"}
           /\ ret \notin {"Err:env TAL_META_OUTPUT_FILES", "Err:create"}

\* C17: a run creates its result document in one step only, File::create,
\* which leaves it empty whatever was there; every other step leaves the
\* document in place and at most appends to it, so that from its creation on
\* it holds no line an earlier run wrote.
C17_FreshDocumentPerRun ==
    [][/\ (pc = "create" /\ pc' = "init") => file' = [exists |-> TRUE, lines |-> << >>]
       /\ pc # "create" => /\ file'.exists = file.exists
                           /\ IsPrefix(file.lines, file'.lines)
       /\ Created' => /\ file'.exists
                      /\ \A i \in 1..Len(file'.lines) : file'.lines[i].kind # "stale"
      ]_vars

\* A run over an earlier run's result.txt has completed: the document is its
\* own verdict line, blank line and Score line.
C17_Witness ==
    /\ pc = "done" /\ ret = "Ok"
    /\ Len(file.lines) = 3
    /\ file.lines[1].kind = "verdict"
    /\ file.lines[3].kind = "score"

\* C19: result.txt is created, empty, before init_fn is called and before the
\* sizing, and nothing is written to it before the loop: a
\* run that ends on init_fn's error or on an inexact size hint leaves a
\* result.txt that exists and is empty.
C19_EmptyDocumentOnEarlyAbort ==
    /\ calls # << >> => file.exists
    /\ pc \in {"init", "size"} => file = [exists |-> TRUE, lines |-> << >>]
    /\ ret \in {"Err:init", "Err:size"} =>
        /\ file = [exists |-> TRUE, lines |-> << >>]
        /\ GenCalls = << >> /\ CheckCalls = << >>

\* init_fn was called once and failed: the run left an empty result.txt.
C19_Witness ==
    /\ ret = "Err:init"
    /\ Len(calls) = 1
    /\ file = [exists |-> TRUE, lines |-> << >>]

----------------------------------------------------------------------------
(* Termination *)

\* The run is over: completed, every item taken and the Score line written, or
\* aborted on an error.
Ended ==
    /\ pc = "done"
    /\ ret # "running"
    /\ ret = "Ok" => iter.rest = 0 /\ ScoreWritten

\* C18: every run ends, completed or aborted; a checker call, failed or not,
\* hands over to the next item and leaves the run going, unless a write of
\* its step fails (the write's error, or the panic of eprintln!); each pass of
\* the loop takes one item off the sequence and counts it, and no other step
\* puts an item back or moves the count.
C18_RunEndsWithoutRevisiting ==
    /\ <>Ended
    /\ [][/\ pc = "check" =>
                \/ pc' = "next" /\ ret' = "running"
                \/ pc' = "done" /\ ret' \in {"Err:write", "panic:stderr"}
          /\ (pc = "next" /\ pc' = "gen") =>
                /\ iter'.rest = iter.rest - 1
                /\ tc_n' = tc_n + 1
          /\ pc \notin {"next", "init", "create"} =>
                /\ iter'.rest = iter.rest
                /\ tc_n' = tc_n
          /\ pc = "done" => pc' = "done"
         ]_vars

\* A run of two cases whose first checker call failed has completed.
C18_Witness ==
    /\ pc = "done" /\ ret = "Ok"
    /\ Len(CheckCalls) = 2
    /\ CheckCalls[1].res = "Err"
    /\ iter.rest = 0
    /\ ScoreWritten

----------------------------------------------------------------------------
(* The Score line and persistence *)

\* The positions of the persistence steps.
PersistenceSteps == {"gate", "open", "problem", "address", "input", "source", "insert"}

\* C20: the Score line is written by the step before the first persistence
\* step, with no persistence variable read and no datastore opened by then
\* (when a closing line cannot be written the run ends there, persistence
\* not attempted);
\* every persistence step finds the document ending with the Score line and
\* leaves it as it is, also when it ends the run with an error; a run that
\* returns Ok has a document ending with the Score line.
C20_ScoreLineBeforePersistence ==
    [][/\ pc = "score" =>
            /\ ScoreWritten' \/ (pc' = "done" /\ ret' = "Err:write")
            /\ \A v \in GateNames \cup PersistenceDetails : envRead'[v] = "unread"
            /\ ~dbOpen' /\ rows' = << >> /\ source' = "unread"
       /\ pc \in PersistenceSteps => ScoreWritten /\ file' = file
       /\ ret' = "Ok" => ScoreWritten'
      ]_vars

\* The insert failed after a run of one case: the run returned the error, the
\* document ends with its Score line.
C20_Witness ==
    /\ ret = "Err:db"
    /\ dbOpen
    /\ source = "read"
    /\ rows = << >>
    /\ ScoreWritten
    /\ Len(VerdictLines) = 1

====
